---- MODULE Spec2Model ----
(***************************************************************************)
(* Batch-intake and submission workflow of the DOCX -> PDF front end.      *)
(*                                                                         *)
(* The repository holds two variants of the same React component:          *)
(*   src/src/App.tsx        (capacity gate, generic error messages)        *)
(*   src/unnamed/part_000   (no capacity gate, raw error messages)         *)
(* Spec models App.tsx as rendered, SpecHandlers models the handlers of    *)
(* App.tsx called without the `disabled` attributes of the rendered        *)
(* controls, and SpecPart000 models part_000 as rendered.                  *)
(*                                                                         *)
(* Strings the code inspects (file names, error messages, status           *)
(* messages, response texts) are sequences of tokens, so that endsWith,    *)
(* includes and === are computed, not assumed.  Non-ASCII letters of the   *)
(* Portuguese messages are transliterated.                                 *)
(*                                                                         *)
(* React state: every handler runs against the state of the latest render  *)
(* (discrete events are flushed synchronously), all setState calls of one  *)
(* handler run are batched, the last setStatus of a run wins, and the      *)
(* functional setFiles updates apply to the live list.                     *)
(***************************************************************************)
EXTENDS Naturals, Integers, Sequences, FiniteSets, TLC

VARIABLES
    files,      \* useState<File[]>([])                       App.tsx:20
    isLoading,  \* useState(false)                            App.tsx:22
    status,     \* useState<StatusState>(idle)                App.tsx:24
    transfers,  \* the runs of handleSubmit suspended at an await, oldest first:
                \* the request body and the await reached     App.tsx:139-161
    objectURLs, \* object URLs created and not revoked             App.tsx:172, 180
    anchors,    \* <a> elements attached to document.body         App.tsx:177, 181
    last        \* what the last handler run was called with and found

vars == <<files, isLoading, status, transfers, objectURLs, anchors, last>>

(***************************************************************************)
(* Bounds of the model.                                                    *)
(***************************************************************************)
\* const MAX_FILES = 30 (App.tsx:7), scaled down so that a full Batch is reachable
MAX_FILES == 2
\* longest FileList offered by one drop or one picker selection
MaxOffer == 2
\* cap on handleSubmit runs awaiting the network at the same time
MaxPending == 2
\* object URLs left unrevoked before the model stops adding more
MaxLeaked == 1
\* cap on the Batch length where the code itself sets none (part_000)
MaxBatch == MAX_FILES + 1

(***************************************************************************)
(* Strings as token sequences.                                             *)
(***************************************************************************)
\* String.prototype.includes
includes(s, sub) ==
    \E i \in 0..(Len(s) - Len(sub)) : SubSeq(s, i + 1, i + Len(sub)) = sub

\* String.prototype.endsWith
endsWith(s, suffix) ==
    /\ Len(s) >= Len(suffix)
    /\ SubSeq(s, Len(s) - Len(suffix) + 1, Len(s)) = suffix

DOCX_MIME == "application/vnd.openxmlformats-officedocument.wordprocessingml.document"

(***************************************************************************)
(* The File objects the platform can hand over.  `handle` is the opaque    *)
(* content; two File objects may agree on name and size and still be       *)
(* different files.                                                        *)
(***************************************************************************)
FileA  == [name |-> <<"a", ".docx">>, size |-> 10, type |-> DOCX_MIME, handle |-> 1]
\* another file with the name and size of FileA
FileA2 == [name |-> <<"a", ".docx">>, size |-> 10, type |-> "", handle |-> 2]
\* the name of FileA with another size
FileA3 == [name |-> <<"a", ".docx">>, size |-> 11, type |-> "", handle |-> 3]
\* a document by its media type only, with the size of FileA
FileB  == [name |-> <<"b", ".doc">>, size |-> 10, type |-> DOCX_MIME, handle |-> 4]
\* no document
FileT  == [name |-> <<"n", ".txt">>, size |-> 10, type |-> "text/plain", handle |-> 5]

Files == {FileA, FileA2, FileA3, FileB, FileT}

RECURSIVE SeqsUpTo(_, _)
SeqsUpTo(S, n) ==
    IF n = 0 THEN {<<>>}
    ELSE LET shorter == SeqsUpTo(S, n - 1)
         IN shorter \cup {Append(s, x) : s \in {t \in shorter : Len(t) = n - 1}, x \in S}

\* the FileLists a drop or a picker selection can carry: File objects of one
\* selection are distinct objects, though two may agree on name and size
FileLists ==
    {l \in SeqsUpTo(Files, MaxOffer) :
        \A i, j \in 1..Len(l) : i # j => l[i].handle # l[j].handle}

(***************************************************************************)
(* StatusState and the messages of App.tsx.                                *)
(***************************************************************************)
StatusState(message, type) == [message |-> message, type |-> type]

Idle == StatusState(<<>>, "idle")

AlreadyFullMsg ==
    <<"Voce", "ja", "atingiu", "o", "limite", "de", ToString(MAX_FILES), "arquivos.">>

PartialMsg(n) ==
    <<"Limite", "de", ToString(MAX_FILES), "arquivos", "atingido.",
      ToString(n), "arquivo(s)", "foram", "adicionados.">>

NoneAddedMsg ==
    <<"Limite", "de", ToString(MAX_FILES), "arquivos", "atingido.",
      "Nenhum", "arquivo", "novo", "foi", "adicionado.">>

EmptyMsg ==
    <<"Opa!", "Voce", "precisa", "selecionar", "um", "arquivo", ".docx", "primeiro.">>

SuccessMsg ==
    <<"Prontinho!", "Conversao", "concluida,", "seu", "download", "vai", "comecar.">>

NetworkMsg ==
    <<"Opa!", "Nao", "consegui", "conectar", "ao", "servidor.",
      "Tente", "de", "novo", "daqui", "a", "pouco.">>

ServerMsg ==
    <<"Ih,", "deu", "um", "probleminha", "no", "servidor", "ao", "tentar",
      "converter.", "Tente", "novamente!">>

UnexpectedMsg ==
    <<"Ocorreu", "um", "erro", "inesperado.", "Por", "favor,", "tente", "de", "novo.">>

(***************************************************************************)
(* The record of the last handler run, kept for stating the claims.        *)
(***************************************************************************)
NoOp == [op |-> "init", offer |-> <<>>, index |-> 0, before |-> <<>>, body |-> <<>>,
         text |-> <<>>, thrown |-> <<>>, hasMessage |-> TRUE, saved |-> <<>>,
         loading |-> FALSE, pending |-> 0, shown |-> [message |-> <<>>, type |-> "idle"]]

Ran(op, offer, body, text) ==
    [op |-> op, offer |-> offer, index |-> 0, before |-> files, body |-> body,
     text |-> text, thrown |-> <<>>, hasMessage |-> TRUE, saved |-> <<>>,
     loading |-> isLoading, pending |-> Len(transfers),
     shown |-> [message |-> <<>>, type |-> "idle"]]

Init ==
    /\ files = <<>>
    /\ isLoading = FALSE
    /\ status = Idle
    /\ transfers = <<>>
    /\ objectURLs = 0
    /\ anchors = 0
    /\ last = NoOp

(***************************************************************************)
(* Intake: addFiles, removeFile, clearAll.                                 *)
(***************************************************************************)
\* a type gate that accepts any file with a declared media type
isDocx_anyType(file) == endsWith(file.name, <<".docx">>) \/ file.type # ""

isDocx(file) == endsWith(file.name, <<".docx">>) \/ file.type = DOCX_MIME

\* a duplicate test on the File object instead of its name and size
isDuplicate_byHandle(file) ==
    \E i \in 1..Len(files) : files[i].handle = file.handle

isDuplicate(file) ==
    \E i \in 1..Len(files) : files[i].name = file.name /\ files[i].size = file.size

\* the forEach with the capacity test off by one (> for >=)
RECURSIVE forEachFile_offByOne(_, _, _)
forEachFile_offByOne(rest, filesToAdd, limitReached) ==
    IF rest = <<>> THEN [filesToAdd |-> filesToAdd, limitReached |-> limitReached]
    ELSE LET file == Head(rest) IN
         IF Len(files) + Len(filesToAdd) > MAX_FILES
         THEN forEachFile_offByOne(Tail(rest), filesToAdd, TRUE)
         ELSE IF isDocx(file) /\ ~isDuplicate(file)
              THEN forEachFile_offByOne(Tail(rest), Append(filesToAdd, file), limitReached)
              ELSE forEachFile_offByOne(Tail(rest), filesToAdd, limitReached)

\* the forEach of addFiles over the offered FileList
RECURSIVE forEachFile(_, _, _)
forEachFile(rest, filesToAdd, limitReached) ==
    IF rest = <<>> THEN [filesToAdd |-> filesToAdd, limitReached |-> limitReached]
    ELSE LET file == Head(rest) IN
         IF Len(files) + Len(filesToAdd) >= MAX_FILES
         THEN forEachFile(Tail(rest), filesToAdd, TRUE)
         ELSE IF isDocx(file) /\ ~isDuplicate(file)
              THEN forEachFile(Tail(rest), Append(filesToAdd, file), limitReached)
              ELSE forEachFile(Tail(rest), filesToAdd, limitReached)

\* addFiles with setFiles(prevFiles => [...filesToAdd, ...prevFiles])
addFiles_prepend(newFiles) ==
    IF Len(files) >= MAX_FILES
    THEN /\ status' = StatusState(AlreadyFullMsg, "error")
         /\ files' = files
    ELSE LET r == forEachFile(newFiles, <<>>, FALSE) IN
         /\ status' = IF r.limitReached /\ Len(r.filesToAdd) > 0
                      THEN StatusState(PartialMsg(Len(r.filesToAdd)), "error")
                      ELSE IF r.limitReached
                           THEN StatusState(NoneAddedMsg, "error")
                           ELSE Idle
         /\ files' = r.filesToAdd \o files

addFiles(newFiles) ==
    IF Len(files) >= MAX_FILES
    THEN /\ status' = StatusState(AlreadyFullMsg, "error")
         /\ files' = files
    ELSE LET r == forEachFile(newFiles, <<>>, FALSE) IN
         /\ status' = IF r.limitReached /\ Len(r.filesToAdd) > 0
                      THEN StatusState(PartialMsg(Len(r.filesToAdd)), "error")
                      ELSE IF r.limitReached
                           THEN StatusState(NoneAddedMsg, "error")
                           ELSE Idle
         /\ files' = files \o r.filesToAdd

\* removal as prevFiles.splice(index, 1) would do it: a negative index counts
\* from the end of the list
filterIndex_splice(prevFiles, i, index) ==
    LET n == Len(prevFiles)
        at == IF index < 0 THEN (IF n + index < 0 THEN 0 ELSE n + index)
              ELSE (IF index > n THEN n ELSE index)
    IN SubSeq(prevFiles, 1, at) \o SubSeq(prevFiles, at + 2, n)

\* prevFiles.filter((_, i) => i !== index), i counted from 0
RECURSIVE filterIndex(_, _, _)
filterIndex(prevFiles, i, index) ==
    IF prevFiles = <<>> THEN <<>>
    ELSE (IF i # index THEN <<Head(prevFiles)>> ELSE <<>>)
         \o filterIndex(Tail(prevFiles), i + 1, index)

removeFile(index) ==
    /\ files' = filterIndex(files, 0, index)
    /\ UNCHANGED status

\* a clear that forgets the Status
clearAll_keepsStatus ==
    /\ files' = <<>>
    /\ UNCHANGED status

clearAll ==
    /\ files' = <<>>
    /\ status' = Idle

(***************************************************************************)
(* Submission: handleSubmit and its continuations after each await.        *)
(***************************************************************************)
\* formData.set in place of formData.append: each file replaces the entry
formData_set ==
    IF files = <<>> THEN <<>>
    ELSE <<[field |-> "files", value |-> files[Len(files)]]>>

\* formData.append('files', file) for every file of the rendered list
formData == [i \in 1..Len(files) |-> [field |-> "files", value |-> files[i]]]

\* what the network can answer
ResponseStatuses == {200, 404, 500}

ok(responseStatus) == responseStatus \in 200..299

\* Content-Disposition values; <<>> is the absent (null) or empty header
ContentDispositions ==
    { <<>>,
      <<"attachment;", "filename=\"", "out.zip", "\"">>,
      <<"attachment">> }

\* response bodies of failed conversions
ErrorTexts ==
    { <<>>,
      <<"conversion", "failed:", "corrupt", "zip">>,
      <<"upstream:", "Failed", "to", "fetch">> }

\* messages of the TypeError a rejected fetch carries (Chromium, Firefox)
FetchErrors ==
    { <<"Failed", "to", "fetch">>,
      <<"NetworkError", "when", "attempting", "to", "fetch", "resource.">> }

\* message of the TypeError a body read (text(), blob()) rejects with
BodyErrors == { <<"network", "error">> }

\* contentDisposition.match(/filename="(.+?)"/): the captured group, or <<>>
filenameMatch(contentDisposition) ==
    LET n == Len(contentDisposition)
        starts == {i \in 1..n : /\ contentDisposition[i] = "filename=\""
                                /\ \E j \in (i + 2)..n : contentDisposition[j] = "\""}
    IN IF starts = {} THEN <<>>
       ELSE LET i == CHOOSE a \in starts : \A b \in starts : a <= b
                ends == {j \in (i + 2)..n : contentDisposition[j] = "\""}
                j == CHOOSE a \in ends : \A b \in ends : a <= b
            IN SubSeq(contentDisposition, i + 1, j - 1)

resolveFilename(contentDisposition) ==
    IF contentDisposition # <<>> /\ filenameMatch(contentDisposition) # <<>>
    THEN filenameMatch(contentDisposition)
    ELSE <<"converted-files.zip">>

\* thrown values: an Error object with its message, and a value that has no
\* message property (catch (error: any))
Error(message) == [hasMessage |-> TRUE, message |-> message]

NoMessage == [hasMessage |-> FALSE, message |-> <<>>]

\* the catch block of handleSubmit: the Status for a thrown error
catchStatus(error) ==
    IF includes(error.message, <<"Failed", "to", "fetch">>)
    THEN StatusState(NetworkMsg, "error")
    ELSE IF error.message = <<"server_error">>
         THEN StatusState(ServerMsg, "error")
         ELSE StatusState(UnexpectedMsg, "error")

\* the state updates after a saved download, in program order:
\* setStatus(success); clearAll() = setFiles([]); setStatus(idle)
\* a clearAll that resets the type of the Status and keeps its message
successUpdates_keepsMessage ==
    << [set |-> "status", to |-> StatusState(SuccessMsg, "success")],
       [set |-> "files", to |-> <<>>],
       [set |-> "status", to |-> StatusState(SuccessMsg, "idle")] >>

successUpdates ==
    << [set |-> "status", to |-> StatusState(SuccessMsg, "success")],
       [set |-> "files", to |-> <<>>],
       [set |-> "status", to |-> Idle] >>

\* React batching: the state after a run is the last value set, else the old one
batched(updates, name, old) ==
    LET at == {i \in 1..Len(updates) : updates[i].set = name}
    IN IF at = {} THEN old
       ELSE updates[CHOOSE i \in at : \A j \in at : j <= i].to

without(k) == SubSeq(transfers, 1, k - 1) \o SubSeq(transfers, k + 1, Len(transfers))

\* handleSubmit without setStatus({ message: '', type: 'idle' }) on entry
handleSubmit_keepsStatus ==
    IF Len(files) = 0
    THEN /\ status' = StatusState(EmptyMsg, "error")
         /\ UNCHANGED <<files, isLoading, transfers, objectURLs, anchors>>
         /\ last' = Ran("submitEmpty", <<>>, <<>>, <<>>)
    ELSE /\ Len(transfers) < MaxPending
         /\ isLoading' = TRUE
         /\ UNCHANGED status
         /\ transfers' = Append(transfers,
                [method |-> "POST", body |-> formData, pc |-> "fetch",
            contentDisposition |-> <<>>])
         /\ UNCHANGED <<files, objectURLs, anchors>>
         /\ last' = [Ran("submit", <<>>, formData, <<>>) EXCEPT !.shown = status]

\* handleSubmit without its check for an empty list
handleSubmit_unchecked ==
    /\ Len(transfers) < MaxPending
    /\ isLoading' = TRUE
    /\ status' = Idle
    /\ transfers' = Append(transfers,
           [method |-> "POST", body |-> formData, pc |-> "fetch",
            contentDisposition |-> <<>>])
    /\ UNCHANGED <<files, objectURLs, anchors>>
    /\ last' = [Ran("submit", <<>>, formData, <<>>) EXCEPT !.shown = status]

handleSubmit ==
    IF Len(files) = 0
    THEN /\ status' = StatusState(EmptyMsg, "error")
         /\ UNCHANGED <<files, isLoading, transfers, objectURLs, anchors>>
         /\ last' = Ran("submitEmpty", <<>>, <<>>, <<>>)
    ELSE /\ Len(transfers) < MaxPending
         /\ isLoading' = TRUE
         /\ status' = Idle
         /\ transfers' = Append(transfers,
                [method |-> "POST", body |-> formData, pc |-> "fetch",
            contentDisposition |-> <<>>])
         /\ UNCHANGED <<files, objectURLs, anchors>>
         /\ last' = [Ran("submit", <<>>, formData, <<>>) EXCEPT !.shown = status]

\* a catch block that also clears the form, as the success path does
catchFinally_clearing(k, op, error, text) ==
    /\ status' = IF error.hasMessage THEN catchStatus(error) ELSE status
    /\ isLoading' = FALSE
    /\ transfers' = without(k)
    /\ files' = <<>>
    /\ UNCHANGED <<objectURLs, anchors>>
    /\ last' = [Ran(op, <<>>, transfers[k].body, text)
                  EXCEPT !.thrown = error.message, !.hasMessage = error.hasMessage]

\* setIsLoading(false) as the last statement of the catch block instead of a
\* finally block: skipped when the catch block itself throws
catchFinally_noFinally(k, op, error, text) ==
    /\ status' = IF error.hasMessage THEN catchStatus(error) ELSE status
    /\ isLoading' = IF error.hasMessage THEN FALSE ELSE isLoading
    /\ transfers' = without(k)
    /\ UNCHANGED <<files, objectURLs, anchors>>
    /\ last' = [Ran(op, <<>>, transfers[k].body, text)
                  EXCEPT !.thrown = error.message, !.hasMessage = error.hasMessage]

\* catch (error) { ... } finally { setIsLoading(false) } of run k.  For a
\* value without a message, error.message.includes(...) throws a TypeError
\* out of the catch block: no setStatus runs, the finally block does, and the
\* promise of handleSubmit rejects unhandled.
catchFinally(k, op, error, text) ==
    /\ status' = IF error.hasMessage THEN catchStatus(error) ELSE status
    /\ isLoading' = FALSE
    /\ transfers' = without(k)
    /\ UNCHANGED <<files, objectURLs, anchors>>
    /\ last' = [Ran(op, <<>>, transfers[k].body, text)
                  EXCEPT !.thrown = error.message, !.hasMessage = error.hasMessage]

\* await fetch(...) rejects: the transport failed before any response
fetchRejects(k) ==
    /\ transfers[k].pc = "fetch"
    /\ \E message \in FetchErrors :
          catchFinally(k, "fetchRejects", Error(message), <<>>)

\* await fetch(...) resolves with a response
fetchResolves(k) ==
    /\ transfers[k].pc = "fetch"
    /\ \E responseStatus \in ResponseStatuses, contentDisposition \in ContentDispositions :
          transfers' = [transfers EXCEPT ![k] =
              IF ok(responseStatus)
              THEN [@ EXCEPT !.pc = "blob", !.contentDisposition = contentDisposition]
              ELSE [@ EXCEPT !.pc = "text"]]
    /\ UNCHANGED <<files, isLoading, status, objectURLs, anchors, last>>

\* await response.text() resolves; throw new Error('server_error')
textResolves(k) ==
    /\ transfers[k].pc = "text"
    /\ \E errorText \in ErrorTexts :
          catchFinally(k, "serverError", Error(<<"server_error">>), errorText)

\* await response.text() or await response.blob() rejects
bodyRejects(k) ==
    /\ transfers[k].pc \in {"text", "blob"}
    /\ \E message \in BodyErrors :
          catchFinally(k, "bodyRejects", Error(message), <<>>)

\* an await of the try block rejects with a value that is no Error object
\* (a promise may reject with any value)
otherThrows(k) ==
    catchFinally(k, "otherThrows", NoMessage, <<>>)

\* the statements of the save that create and release resources, in order
saveSteps == <<"createObjectURL", "appendChild", "click", "revokeObjectURL", "remove">>

\* the statements run when a.click() throws: the control leaves the try block
untilClick == SubSeq(saveSteps, 1, 3)

count(steps, name) == Cardinality({i \in 1..Len(steps) : steps[i] = name})

\* object URLs and attached anchors that a run of the steps leaves behind
urlsHeld(steps) == count(steps, "createObjectURL") - count(steps, "revokeObjectURL")

anchorsHeld(steps) == count(steps, "appendChild") - count(steps, "remove")

\* message of an error thrown by a.click()
ClickErrors == { <<"click", "failed">> }

\* await response.blob() resolves and a.click() throws: catch, finally
saveThrows(k) ==
    /\ transfers[k].pc = "blob"
    /\ objectURLs < MaxLeaked
    /\ objectURLs' = objectURLs + urlsHeld(untilClick)
    /\ anchors' = anchors + anchorsHeld(untilClick)
    /\ \E message \in ClickErrors :
          /\ status' = catchStatus(Error(message))
          /\ last' = [Ran("saveThrows", <<>>, transfers[k].body, <<>>)
                        EXCEPT !.thrown = message]
    /\ isLoading' = FALSE
    /\ transfers' = without(k)
    /\ UNCHANGED files

\* await response.blob() resolves: save, setStatus(success), clearAll(), finally
blobResolves(k) ==
    /\ transfers[k].pc = "blob"
    /\ objectURLs' = objectURLs + urlsHeld(saveSteps)
    /\ anchors' = anchors + anchorsHeld(saveSteps)
    /\ files' = batched(successUpdates, "files", files)
    /\ status' = batched(successUpdates, "status", status)
    /\ isLoading' = FALSE
    /\ transfers' = without(k)
    /\ last' = [Ran("saved", <<>>, transfers[k].body, <<>>)
                  EXCEPT !.saved = resolveFilename(transfers[k].contentDisposition)]

(***************************************************************************)
(* Event handlers of the intake.                                           *)
(***************************************************************************)
handleDrop ==
    \E newFiles \in FileLists :
        /\ addFiles(newFiles)
        /\ UNCHANGED <<isLoading, transfers, objectURLs, anchors>>
        /\ last' = Ran("handleDrop", newFiles, <<>>, <<>>)

handleFileChange ==
    \E newFiles \in FileLists :
        /\ addFiles(newFiles)
        /\ UNCHANGED <<isLoading, transfers, objectURLs, anchors>>
        /\ last' = Ran("handleFileChange", newFiles, <<>>, <<>>)

(***************************************************************************)
(* The rendered controls: a handler runs when its control is not disabled. *)
(***************************************************************************)
\* <input id="file-upload" ... disabled={isLoading}>
PickFiles == ~isLoading /\ handleFileChange

\* <div id="drop-zone" onDrop={handleDrop}>
Drop == handleDrop

\* the remove button of list item `index`, disabled={isLoading}
ClickRemove ==
    /\ ~isLoading
    /\ \E index \in 0..(Len(files) - 1) :
          /\ removeFile(index)
          /\ last' = [Ran("removeFile", <<>>, <<>>, <<>>) EXCEPT !.index = index]
    /\ UNCHANGED <<isLoading, transfers, objectURLs, anchors>>

\* <button id="clear-button" disabled={isLoading}>, inside a container
\* that is hidden while the list is empty
ClickClear ==
    /\ ~isLoading
    /\ Len(files) # 0
    /\ clearAll
    /\ last' = Ran("clearAll", <<>>, <<>>, <<>>)
    /\ UNCHANGED <<isLoading, transfers, objectURLs, anchors>>

\* a convert button that stays enabled while loading
convertDisabled_whileLoading == Len(files) = 0

\* <button id="convert-button" disabled={isLoading || files.length === 0}>
convertDisabled == isLoading \/ Len(files) = 0

ClickConvert == ~convertDisabled /\ handleSubmit

\* the network events of the pending handleSubmit runs
FetchRejects == \E k \in 1..Len(transfers) : fetchRejects(k)

FetchResolves == \E k \in 1..Len(transfers) : fetchResolves(k)

TextResolves == \E k \in 1..Len(transfers) : textResolves(k)

BodyRejects == \E k \in 1..Len(transfers) : bodyRejects(k)

BlobResolves == \E k \in 1..Len(transfers) : blobResolves(k)

Next ==
    \/ Drop
    \/ PickFiles
    \/ ClickRemove
    \/ ClickClear
    \/ ClickConvert
    \/ FetchRejects
    \/ FetchResolves
    \/ TextResolves
    \/ BodyRejects
    \/ BlobResolves

Spec == Init /\ [][Next]_vars

(***************************************************************************)
(* The handlers of App.tsx called directly as well, with any index and on  *)
(* any Batch: the `disabled` attributes of the rendered controls are not   *)
(* part of the handlers.  Direct calls are made while no run of            *)
(* handleSubmit is pending.                                                *)
(***************************************************************************)
CallRemoveFile ==
    /\ transfers = <<>>
    /\ \E index \in (-1)..MAX_FILES :
          /\ removeFile(index)
          /\ last' = [Ran("removeFile", <<>>, <<>>, <<>>) EXCEPT !.index = index]
    /\ UNCHANGED <<isLoading, transfers, objectURLs, anchors>>

CallClearAll ==
    /\ transfers = <<>>
    /\ clearAll
    /\ last' = Ran("clearAll", <<>>, <<>>, <<>>)
    /\ UNCHANGED <<isLoading, transfers, objectURLs, anchors>>

CallHandleSubmit == transfers = <<>> /\ handleSubmit

NextHandlers ==
    \/ Drop
    \/ PickFiles
    \/ ClickRemove
    \/ ClickClear
    \/ ClickConvert
    \/ CallRemoveFile
    \/ CallClearAll
    \/ CallHandleSubmit
    \/ FetchRejects
    \/ FetchResolves
    \/ TextResolves
    \/ BodyRejects
    \/ BlobResolves

SpecHandlers == Init /\ [][NextHandlers]_vars

(***************************************************************************)
(* App.tsx as rendered, on a platform whose promises may also reject with  *)
(* values that are no Error objects.                                       *)
(***************************************************************************)
OtherThrows == \E k \in 1..Len(transfers) : otherThrows(k)

NextAnyThrow ==
    \/ Drop
    \/ PickFiles
    \/ ClickRemove
    \/ ClickClear
    \/ ClickConvert
    \/ FetchRejects
    \/ FetchResolves
    \/ TextResolves
    \/ BodyRejects
    \/ BlobResolves
    \/ OtherThrows

SpecAnyThrow == Init /\ [][NextAnyThrow]_vars

(***************************************************************************)
(* App.tsx as rendered, on a platform where a.click() may throw.           *)
(***************************************************************************)
SaveThrows == \E k \in 1..Len(transfers) : saveThrows(k)

NextSaveThrows ==
    \/ Drop
    \/ PickFiles
    \/ ClickRemove
    \/ ClickClear
    \/ ClickConvert
    \/ FetchRejects
    \/ FetchResolves
    \/ TextResolves
    \/ BodyRejects
    \/ BlobResolves
    \/ SaveThrows

SpecSaveThrows == Init /\ [][NextSaveThrows]_vars

(***************************************************************************)
(* The variant src/unnamed/part_000, as rendered.  removeFile, clearAll,   *)
(* the rendered controls and the awaits are those of App.tsx; addFiles,    *)
(* the messages and the error handling of handleSubmit differ.             *)
(***************************************************************************)
EmptyMsg_part000 ==
    <<"Por", "favor,", "selecione", "pelo", "menos", "um", "arquivo", ".docx">>

SuccessMsg_part000 ==
    <<"Conversao", "concluida!", "O", "download", "do", ".zip", "comecou.">>

ConnectionMsg_part000 ==
    <<"Erro", "de", "conexao:", "Nao", "foi", "possivel", "acessar", "o",
      "servidor.", "O", "Docker", "esta", "rodando?">>

DefaultServerMsg_part000 ==
    <<"Erro", "no", "servidor.", "Verifique", "o", "console", "do", "Docker.">>

\* the forEach of addFiles in part_000: type gate and duplicate gate only
RECURSIVE forEachFile_part000(_, _)
forEachFile_part000(rest, filesToAdd) ==
    IF rest = <<>> THEN filesToAdd
    ELSE LET file == Head(rest) IN
         IF isDocx(file) /\ ~isDuplicate(file)
         THEN forEachFile_part000(Tail(rest), Append(filesToAdd, file))
         ELSE forEachFile_part000(Tail(rest), filesToAdd)

addFiles_part000(newFiles) ==
    /\ status' = Idle
    /\ files' = files \o forEachFile_part000(newFiles, <<>>)

handleDrop_part000 ==
    \E newFiles \in FileLists :
        /\ addFiles_part000(newFiles)
        /\ Len(files') <= MaxBatch
        /\ UNCHANGED <<isLoading, transfers, objectURLs, anchors>>
        /\ last' = Ran("handleDrop", newFiles, <<>>, <<>>)

handleFileChange_part000 ==
    \E newFiles \in FileLists :
        /\ addFiles_part000(newFiles)
        /\ Len(files') <= MaxBatch
        /\ UNCHANGED <<isLoading, transfers, objectURLs, anchors>>
        /\ last' = Ran("handleFileChange", newFiles, <<>>, <<>>)

PickFiles_part000 == ~isLoading /\ handleFileChange_part000

Drop_part000 == handleDrop_part000

handleSubmit_part000 ==
    IF Len(files) = 0
    THEN /\ status' = StatusState(EmptyMsg_part000, "error")
         /\ UNCHANGED <<files, isLoading, transfers, objectURLs, anchors>>
         /\ last' = Ran("submitEmpty", <<>>, <<>>, <<>>)
    ELSE /\ Len(transfers) < MaxPending
         /\ isLoading' = TRUE
         /\ status' = Idle
         /\ transfers' = Append(transfers,
                [method |-> "POST", body |-> formData, pc |-> "fetch",
            contentDisposition |-> <<>>])
         /\ UNCHANGED <<files, objectURLs, anchors>>
         /\ last' = [Ran("submit", <<>>, formData, <<>>) EXCEPT !.shown = status]

ClickConvert_part000 == ~convertDisabled /\ handleSubmit_part000

\* the catch block of handleSubmit in part_000
catchStatus_part000(error) ==
    IF includes(error.message, <<"Failed", "to", "fetch">>)
    THEN StatusState(ConnectionMsg_part000, "error")
    ELSE StatusState(error.message, "error")

catchFinally_part000(k, op, error, text) ==
    /\ status' = catchStatus_part000(error)
    /\ isLoading' = FALSE
    /\ transfers' = without(k)
    /\ UNCHANGED <<files, objectURLs, anchors>>
    /\ last' = [Ran(op, <<>>, transfers[k].body, text)
                  EXCEPT !.thrown = error.message, !.hasMessage = TRUE]

FetchRejects_part000 ==
    \E k \in 1..Len(transfers) :
        /\ transfers[k].pc = "fetch"
        /\ \E message \in FetchErrors :
              catchFinally_part000(k, "fetchRejects", [message |-> message], <<>>)

\* throw new Error(errorText || 'Erro no servidor. ...')
TextResolves_part000 ==
    \E k \in 1..Len(transfers) :
        /\ transfers[k].pc = "text"
        /\ \E errorText \in ErrorTexts :
              catchFinally_part000(k, "serverError",
                  [message |-> IF errorText # <<>> THEN errorText
                               ELSE DefaultServerMsg_part000],
                  errorText)

BodyRejects_part000 ==
    \E k \in 1..Len(transfers) :
        /\ transfers[k].pc \in {"text", "blob"}
        /\ \E message \in BodyErrors :
              catchFinally_part000(k, "bodyRejects", [message |-> message], <<>>)

successUpdates_part000 ==
    << [set |-> "status", to |-> StatusState(SuccessMsg_part000, "success")],
       [set |-> "files", to |-> <<>>],
       [set |-> "status", to |-> Idle] >>

BlobResolves_part000 ==
    \E k \in 1..Len(transfers) :
        /\ transfers[k].pc = "blob"
        /\ objectURLs' = objectURLs + urlsHeld(saveSteps)
        /\ anchors' = anchors + anchorsHeld(saveSteps)
        /\ files' = batched(successUpdates_part000, "files", files)
        /\ status' = batched(successUpdates_part000, "status", status)
        /\ isLoading' = FALSE
        /\ transfers' = without(k)
        /\ last' = [Ran("saved", <<>>, transfers[k].body, <<>>)
                      EXCEPT !.saved = resolveFilename(transfers[k].contentDisposition)]

NextPart000 ==
    \/ Drop_part000
    \/ PickFiles_part000
    \/ ClickRemove
    \/ ClickClear
    \/ ClickConvert_part000
    \/ FetchRejects_part000
    \/ FetchResolves
    \/ TextResolves_part000
    \/ BodyRejects_part000
    \/ BlobResolves_part000

SpecPart000 == Init /\ [][NextPart000]_vars

(***************************************************************************)
(* The claims.                                                             *)
(***************************************************************************)
addOps == {"handleDrop", "handleFileChange"}

intakeOps == addOps \cup {"removeFile", "clearAll"}

sameIdentity(f, g) == f.name = g.name /\ f.size = g.size

duplicateOf(file, batch) == \E i \in 1..Len(batch) : sameIdentity(batch[i], file)

isPrefix(s, t) == Len(s) <= Len(t) /\ SubSeq(t, 1, Len(s)) = s

\* the files of a request body, in order
sent(body) == [i \in 1..Len(body) |-> body[i].value]

\* the Status values that report the capacity limit
CapacityMessages ==
    {AlreadyFullMsg, NoneAddedMsg} \cup {PartialMsg(n) : n \in 0..(MAX_FILES + MaxOffer)}

\* remaining room of a Batch
room(batch) == MAX_FILES - Len(batch)

\* C1: the Batch never holds more than MAX_FILES files, whatever offers,
\* removals, clears and submissions came before.
C1_BatchWithinCapacity == Len(files) <= MAX_FILES

\* C2: no two Candidates of the Batch have the same (name, size) pair; a file
\* equal in name and size to one staged earlier in the same offer is dropped.
C2_NoDuplicatePairs ==
    \A i, j \in 1..Len(files) : i # j => ~sameIdentity(files[i], files[j])

\* C3: once a Transfer resolved with a 2xx response and the save was
\* triggered, the Batch is empty and Status is success with the confirmation.
C3_SuccessShowsSuccess ==
    last.op = "saved" =>
        /\ files = <<>>
        /\ status = StatusState(SuccessMsg, "success")

\* C4: at most one Transfer is pending at any time, and no submission starts
\* while the workflow is loading.
C4_AtMostOneTransfer ==
    /\ Len(transfers) <= 1
    /\ isLoading <=> transfers # <<>>
    /\ last.op = "submit" => ~last.loading /\ last.pending = 0

\* a user event (a drop) was handled while the one Transfer was pending
C4_Witness ==
    /\ Len(transfers) = 1
    /\ isLoading
    /\ last.op = "handleDrop"
    /\ last.loading

\* C5: a user event handled while loading (picker, drop, remove, clear)
\* leaves the Batch as it was.
C5_NoIntakeWhileLoading ==
    (last.op \in intakeOps /\ last.loading) => files = last.before

\* C6: handling a failed Transfer (transport failure, or non-2xx response)
\* leaves the Batch unchanged, still holding the submitted files in order,
\* and sets Status to error.
C6_FailureKeepsBatch ==
    last.op \in {"fetchRejects", "serverError"} =>
        /\ files = last.before
        /\ isPrefix(sent(last.body), files)
        /\ status.type = "error"

\* a non-2xx response with a diagnostic text was handled on a non-empty Batch
C6_Witness ==
    /\ last.op = "serverError"
    /\ last.text # <<>>
    /\ files # <<>>

\* C7: after a non-2xx response the Status message is the fixed generic
\* server-error message and neither equals nor contains the response text.
C7_GenericServerMessage ==
    last.op = "serverError" =>
        /\ status.message \in {ServerMsg, DefaultServerMsg_part000}
        /\ last.text # <<>> => ~includes(status.message, last.text)

\* C8: handleSubmit on an empty Batch sets Status to the empty-submission
\* error, leaves isLoading as it was and starts no request; a request is
\* only ever started for a non-empty Batch.
C8_EmptySubmitShortCircuits ==
    /\ last.op = "submitEmpty" =>
          /\ status = StatusState(EmptyMsg, "error")
          /\ isLoading = last.loading
          /\ Len(transfers) = last.pending
          /\ files = <<>>
    /\ last.op = "submit" => last.before # <<>> /\ last.body # <<>>

\* handleSubmit ran on an empty Batch with nothing pending
C8_Witness ==
    /\ last.op = "submitEmpty"
    /\ last.before = <<>>
    /\ ~isLoading
    /\ transfers = <<>>

\* C9 as stated: every offer of N files to a Batch with room R < N adds
\* exactly R files and sets the 'limit reached, partially added' Status.
C9_Original ==
    (last.op \in addOps /\ room(last.before) < Len(last.offer)) =>
        /\ Len(files) = Len(last.before) + room(last.before)
        /\ status = StatusState(PartialMsg(room(last.before)), "error")

\* every offered file passes the type gate and is no duplicate of the Batch
allAdmissible(offer, batch) ==
    \A i \in 1..Len(offer) : isDocx(offer[i]) /\ ~duplicateOf(offer[i], batch)

\* C9 amended: an offer of N files, each passing the type gate and none a
\* duplicate of a Candidate of the Batch, to a Batch with room 0 < R < N
\* appends exactly the first R offered files and sets the 'limit reached,
\* R files added' error Status.
C9_PartialAddition ==
    ( /\ last.op \in addOps
      /\ allAdmissible(last.offer, last.before)
      /\ 0 < room(last.before)
      /\ room(last.before) < Len(last.offer) ) =>
        /\ files = last.before \o SubSeq(last.offer, 1, room(last.before))
        /\ status = StatusState(PartialMsg(room(last.before)), "error")

\* an offer of admissible files larger than the positive room was handled
C9_Witness ==
    /\ last.op \in addOps
    /\ allAdmissible(last.offer, last.before)
    /\ 0 < room(last.before)
    /\ room(last.before) < Len(last.offer)
    /\ Len(files) = MAX_FILES

\* the offer is not empty and every file of it is a duplicate of the Batch
allDuplicates(offer, batch) ==
    /\ offer # <<>>
    /\ \A i \in 1..Len(offer) : duplicateOf(offer[i], batch)

RECURSIVE eligibleCount(_)
eligibleCount(offer) ==
    IF offer = <<>> THEN 0
    ELSE (IF isDocx(Head(offer)) THEN 1 ELSE 0) + eligibleCount(Tail(offer))

\* the offer holds a file failing the type gate, and its files passing the
\* gate fit the room: whatever lies beyond the room is ineligible
onlyIneligibleBeyondRoom(offer, batch) ==
    /\ \E i \in 1..Len(offer) : ~isDocx(offer[i])
    /\ eligibleCount(offer) <= room(batch)

\* C11: an offer made only of ineligible files, or whose only files beyond
\* the remaining room are ineligible, never sets a 'limit reached' Status.
C11_IneligibleNeverCapacity ==
    (last.op \in addOps /\ onlyIneligibleBeyondRoom(last.offer, last.before)) =>
        status.message \notin CapacityMessages

\* neither the .docx suffix nor the Word media type
nonDocument(file) == ~endsWith(file.name, <<".docx">>) /\ file.type # DOCX_MIME

\* the number of files of an offer that are documents
RECURSIVE documentCount(_)
documentCount(offer) ==
    IF offer = <<>> THEN 0
    ELSE (IF nonDocument(Head(offer)) THEN 0 ELSE 1) + documentCount(Tail(offer))

\* C12: a file with neither the .docx suffix nor the Word media type never
\* enters the Batch and never changes its length, wherever it stands in an
\* offer: the Batch holds documents only, an offer adds at most as many files
\* as it holds documents, and an offer of non-documents leaves the Batch as
\* it was.
C12_NonDocumentNeverAdded ==
    /\ \A i \in 1..Len(files) : ~nonDocument(files[i])
    /\ last.op \in addOps =>
          /\ Len(files) <= Len(last.before) + documentCount(last.offer)
          /\ documentCount(last.offer) = 0 => files = last.before

\* a non-document offered after a document: the document was added alone
C12_Witness ==
    /\ last.op \in addOps
    /\ Len(last.offer) = 2
    /\ ~nonDocument(last.offer[1])
    /\ nonDocument(last.offer[2])
    /\ Len(last.before) = 0
    /\ files = <<last.offer[1]>>

\* C13: removeFile with an index outside [0, length) leaves the Batch exactly
\* as it was (and returns: the filter is defined for every index), also for
\* an index left over from a longer Batch.
C13_RemoveOutOfRangeIsNoOp ==
    ( /\ last.op = "removeFile"
      /\ (last.index < 0 \/ last.index >= Len(last.before)) ) =>
        files = last.before

\* removeFile ran with the index just past the end, and with -1, of a
\* non-empty Batch
C13_Witness ==
    /\ last.op = "removeFile"
    /\ last.before # <<>>
    /\ last.index \in {-1, Len(last.before)}
    /\ files = last.before

\* C14: from a Status of error or success, the next Batch mutation (an
\* offer, a removal, or a clear) returns Status to idle.  An offer is allowed
\* the capacity error its own verdict calls for: addFiles resets Status to
\* idle before it decides.
C14_MutationReturnsToIdle ==
    [][ ( /\ status.type \in {"error", "success"}
          /\ last' # last
          /\ last'.op \in intakeOps ) =>
            \/ status' = Idle
            \/ last'.op \in addOps /\ status'.message \in CapacityMessages ]_vars

\* C15: clearAll, in whatever state it runs (called on its own, or as the
\* last call of a successful submission), leaves an empty Batch and the idle
\* Status with no message, both in the same step.
C15_ClearAllResets ==
    last.op \in {"clearAll", "saved"} =>
        /\ files = <<>>
        /\ status = Idle
        /\ status.message = <<>>

\* clearAll ran on a full Batch
C15_Witness ==
    /\ last.op = "clearAll"
    /\ Len(last.before) = MAX_FILES
    /\ files = <<>>

\* C16: every Transfer that resolves with a failure (fetch rejects, the
\* response is not ok, a body read rejects, any other value is thrown) leaves
\* the page, in the render that follows, with isLoading false, Status idle or
\* error, and the convert button enabled: no failure stays in loading.
failureOps == {"fetchRejects", "serverError", "bodyRejects", "otherThrows"}

C16_FailureEndsLoading ==
    last.op \in failureOps =>
        /\ ~isLoading
        /\ status.type \in {"idle", "error"}
        /\ ~convertDisabled

C16_Witness ==
    /\ last.op = "otherThrows"
    /\ ~last.hasMessage
    /\ last.loading
    /\ ~isLoading
    /\ ~convertDisabled

\* C17: when a Transfer succeeds, every Candidate that the clear discards was
\* part of the request body of that Transfer: a file that entered the Batch
\* after the body was built is not discarded unsent.
C17_ClearOnlySubmitted ==
    last.op = "saved" =>
        \A i \in 1..Len(last.before) :
            \E j \in 1..Len(last.body) : sent(last.body)[j] = last.before[i]

\* C18: a submission of a non-empty Batch builds a request body with exactly
\* one entry under the field "files" per file of the Batch, in Batch order,
\* and issues one POST with that body.
C18_BodyMirrorsBatch ==
    last.op = "submit" =>
        /\ Len(last.body) = Len(last.before)
        /\ \A i \in 1..Len(last.body) :
              /\ last.body[i].field = "files"
              /\ last.body[i].value = last.before[i]
        /\ Len(transfers) = last.pending + 1
        /\ transfers[Len(transfers)].method = "POST"
        /\ transfers[Len(transfers)].body = last.body

C18_Witness ==
    /\ last.op = "submit"
    /\ Len(last.body) = MAX_FILES
    /\ last.body[1].value # last.body[2].value
    /\ Len(transfers) = 1

\* C19: a submission that enters loading shows the idle Status with an empty
\* message from its first render on, and while the Transfer is pending no
\* message of an earlier attempt is shown: a Status other than idle during
\* loading is the verdict of an offer made during that loading.
AttemptMessages == {EmptyMsg, SuccessMsg, NetworkMsg, ServerMsg, UnexpectedMsg}

C19_LoadingStartsIdle ==
    /\ last.op = "submit" => (isLoading /\ status = Idle /\ status.message = <<>>)
    /\ isLoading =>
          /\ status.message \notin AttemptMessages
          /\ status # Idle => (last.op \in addOps /\ last.loading)

C19_Witness ==
    /\ last.op = "submit"
    /\ last.shown.type = "error"
    /\ last.shown.message \in AttemptMessages
    /\ status = Idle
    /\ isLoading

\* C20: a value thrown during a submission that is neither a rejection of
\* fetch nor the server_error signal of a response that is not ok leaves
\* Status error with the generic unexpected-error message, whatever the value
\* thrown, a value without a message included.
otherExceptionOps == {"bodyRejects", "otherThrows"}

C20_OtherExceptionIsUnexpected ==
    last.op \in otherExceptionOps => status = StatusState(UnexpectedMsg, "error")

\* C21: after every submission that reached the save, whether the save was
\* triggered or a.click() threw, no object URL is left unrevoked and no
\* anchor is left attached to the document.
saveOps == {"saved", "saveThrows"}

C21_SaveReleasesResources ==
    last.op \in saveOps => (objectURLs = 0 /\ anchors = 0)

\* C22: an offer only appends: the Batch before the offer is a prefix of the
\* Batch after it, and the files added follow it in the relative order in
\* which they were offered.
added == SubSeq(files, Len(last.before) + 1, Len(files))

\* the place of a File object in an offer (an offer holds an object once)
placeIn(offer, file) == CHOOSE i \in 1..Len(offer) : offer[i] = file

C22_OfferOnlyAppends ==
    last.op \in addOps =>
        /\ isPrefix(last.before, files)
        /\ \A a \in 1..Len(added) : \E i \in 1..Len(last.offer) : last.offer[i] = added[a]
        /\ \A a, b \in 1..Len(added) :
              a < b => placeIn(last.offer, added[a]) < placeIn(last.offer, added[b])

C22_Witness ==
    /\ last.op \in addOps
    /\ last.before # <<>>
    /\ Len(last.offer) = MaxOffer
    /\ Len(files) > Len(last.before)
    /\ isPrefix(last.before, files)

\* C23: in every state the Status is of type idle exactly when its message is
\* empty, so a Status of type error or success carries a message.
C23_StatusWellFormed ==
    /\ status.type \in {"idle", "error", "success"}
    /\ status.type = "idle" <=> status.message = <<>>

C23_Witness ==
    /\ status.type = "error"
    /\ status.message = UnexpectedMsg
    /\ last.op = "bodyRejects"


====
